---- MODULE Spec2Model ----
(***************************************************************************)
(* Model of the OS simulator: the contiguous memory allocator              *)
(* (memory_manager.py), the process record (process.py) and the CPU        *)
(* scheduler (scheduler.py).                                               *)
(*                                                                         *)
(* Python object references are modelled by stable names: a Process object *)
(* is named by its index in ProcIds, a MemoryBlock held in the ownership   *)
(* map is named by its start address (the start of an allocated block      *)
(* never changes, and allocated blocks are never removed from the list).   *)
(***************************************************************************)
EXTENDS Integers, Sequences, FiniteSets, TLC

\* ---------------------------------------------------------------- bounds
NumProcs    == 2      \* Process objects in an allocator run
MaxPid      == 2      \* pids in use in an allocator run are 1..MaxPid
MaxReq      == 3      \* memory_required is drawn from 1..MaxReq
MaxMemory   == 4      \* total_memory is drawn from 1..MaxMemory
NumJobs     == 3      \* Process objects handed to schedule
MaxArrival  == 2      \* arrival_time is drawn from 0..MaxArrival
MaxBurst    == 2      \* burst_time is drawn from 1..MaxBurst
MaxPriority == 1      \* priority is drawn from 0..MaxPriority
MaxQuantum  == 2      \* a valid time_quantum is drawn from 1..MaxQuantum
MaxNegQuantum == 1    \* an unvalidated time_quantum is drawn from -MaxNegQuantum..MaxQuantum
MaxNegMemory == 1     \* an unvalidated total_memory is drawn from -MaxNegMemory..MaxMemory
RunProcs      == 2    \* Process objects handed to run_simulation
RunMemory     == 3    \* run_simulation's total_memory is drawn from 1..RunMemory
RunMaxReq     == 2    \* their memory_required is drawn from 1..RunMaxReq
RunMaxArrival == 1    \* their arrival_time is drawn from 0..RunMaxArrival
\* longest trace explored; no run with time_quantum >= 1 is that long
MaxTrace    == (NumJobs + 1) * (MaxBurst + 1)

ProcIds     == 1..NumProcs
JobIds      == 1..NumJobs

\* Python's None, for MemoryBlock.process_id (pids are positive)
None        == 0
\* float('inf'), for _best_fit's min_size_diff
Infinity    == -1

Strategies  == {"First-Fit", "Best-Fit", "Worst-Fit"}

VARIABLES
    \* MemoryManager
    total_memory, strategy, memory_blocks, allocated_blocks,
    \* the Process objects
    process,
    \* the last call made on the MemoryManager: [op, p, ret]
    call,
    \* Scheduler
    algorithm, time_quantum, ready_queue, current_time,
    completed_processes, gantt_chart,
    \* locals of Scheduler.schedule, and where the call stands
    all_processes, process_index, pc,
    \* run_simulation: where it stands, the index of its current loop, what
    \* allocate returned for each process so far, and allocated_processes
    driver

mem_vars   == <<total_memory, strategy, memory_blocks, allocated_blocks, call>>
sched_vars == <<algorithm, time_quantum, ready_queue, current_time,
                completed_processes, gantt_chart,
                all_processes, process_index, pc>>
vars == <<total_memory, strategy, memory_blocks, allocated_blocks,
          process, call,
          algorithm, time_quantum, ready_queue, current_time,
          completed_processes, gantt_chart,
          all_processes, process_index, pc, driver>>

\* ---------------------------------------------------------------- Process
Process(pid, arrival_time, burst_time, memory_required, priority) ==
    [ pid              |-> pid,
      arrival_time     |-> arrival_time,
      burst_time       |-> burst_time,
      remaining_time   |-> burst_time,
      memory_required  |-> memory_required,
      priority         |-> priority,
      start_time       |-> -1,
      completion_time  |-> 0,
      waiting_time     |-> 0,
      turnaround_time  |-> 0,
      response_time    |-> -1,
      memory_allocated |-> FALSE,
      memory_start     |-> -1,
      memory_end       |-> -1,
      state            |-> "NEW" ]

\* pids are assigned by the caller, here cyclically from 1..MaxPid, so that
\* with NumProcs > MaxPid two Process objects share a pid
PidOf(i) == ((i - 1) % MaxPid) + 1

\* ---------------------------------------------------------------- MemoryBlock
MemoryBlock(start, size) ==
    [ start |-> start, size |-> size, allocated |-> FALSE, process_id |-> None ]

\* ---------------------------------------------------------------- search
\* Each search returns the index in the block list of the chosen block,
\* 0 for None.

RECURSIVE FirstFitLoop(_, _, _)
FirstFitLoop(blocks, size, i) ==
    IF i > Len(blocks) THEN 0
    ELSE IF ~blocks[i].allocated /\ blocks[i].size >= size THEN i
    ELSE FirstFitLoop(blocks, size, i + 1)

\* _first_fit with "block.size > size": a block of exactly the size is passed over
RECURSIVE FirstFitLoopStrict(_, _, _)
FirstFitLoopStrict(blocks, size, i) ==
    IF i > Len(blocks) THEN 0
    ELSE IF ~blocks[i].allocated /\ blocks[i].size > size THEN i
    ELSE FirstFitLoopStrict(blocks, size, i + 1)

_first_fit_strict(blocks, size) == FirstFitLoopStrict(blocks, size, 1)

_first_fit(blocks, size) == FirstFitLoop(blocks, size, 1)

RECURSIVE BestFitLoop(_, _, _, _, _)
BestFitLoop(blocks, size, i, best_block, min_size_diff) ==
    IF i > Len(blocks) THEN best_block
    ELSE IF ~blocks[i].allocated /\ blocks[i].size >= size
              /\ (min_size_diff = Infinity \/ blocks[i].size - size < min_size_diff)
         THEN BestFitLoop(blocks, size, i + 1, i, blocks[i].size - size)
         ELSE BestFitLoop(blocks, size, i + 1, best_block, min_size_diff)

\* _best_fit with "size_diff <= min_size_diff": the last of the tightest blocks
RECURSIVE BestFitLoopLast(_, _, _, _, _)
BestFitLoopLast(blocks, size, i, best_block, min_size_diff) ==
    IF i > Len(blocks) THEN best_block
    ELSE IF ~blocks[i].allocated /\ blocks[i].size >= size
              /\ (min_size_diff = Infinity \/ blocks[i].size - size <= min_size_diff)
         THEN BestFitLoopLast(blocks, size, i + 1, i, blocks[i].size - size)
         ELSE BestFitLoopLast(blocks, size, i + 1, best_block, min_size_diff)

_best_fit_last(blocks, size) == BestFitLoopLast(blocks, size, 1, 0, Infinity)

_best_fit(blocks, size) == BestFitLoop(blocks, size, 1, 0, Infinity)

RECURSIVE WorstFitLoop(_, _, _, _, _)
WorstFitLoop(blocks, size, i, worst_block, max_size) ==
    IF i > Len(blocks) THEN worst_block
    ELSE IF ~blocks[i].allocated /\ blocks[i].size >= size
              /\ blocks[i].size > max_size
         THEN WorstFitLoop(blocks, size, i + 1, i, blocks[i].size)
         ELSE WorstFitLoop(blocks, size, i + 1, worst_block, max_size)

\* _worst_fit with "block.size >= max_size": the last of the largest blocks
RECURSIVE WorstFitLoopLast(_, _, _, _, _)
WorstFitLoopLast(blocks, size, i, worst_block, max_size) ==
    IF i > Len(blocks) THEN worst_block
    ELSE IF ~blocks[i].allocated /\ blocks[i].size >= size
              /\ blocks[i].size >= max_size
         THEN WorstFitLoopLast(blocks, size, i + 1, i, blocks[i].size)
         ELSE WorstFitLoopLast(blocks, size, i + 1, worst_block, max_size)

_worst_fit_last(blocks, size) == WorstFitLoopLast(blocks, size, 1, 0, -1)

_worst_fit(blocks, size) == WorstFitLoop(blocks, size, 1, 0, -1)

\* the strategy dispatch at the head of allocate
SuitableBlock(strat, blocks, size) ==
    IF strat = "First-Fit" THEN _first_fit(blocks, size)
    ELSE IF strat = "Best-Fit" THEN _best_fit(blocks, size)
    ELSE IF strat = "Worst-Fit" THEN _worst_fit(blocks, size)
    ELSE 0

\* ---------------------------------------------------------------- merge
RECURSIVE MergeLoop(_, _)
MergeLoop(blocks, i) ==
    IF ~(i < Len(blocks)) THEN blocks
    ELSE IF ~blocks[i].allocated /\ ~blocks[i + 1].allocated
         THEN MergeLoop(
                 [ j \in 1..(Len(blocks) - 1) |->
                     IF j < i THEN blocks[j]
                     ELSE IF j = i
                          THEN [blocks[i] EXCEPT !.size = @ + blocks[i + 1].size]
                          ELSE blocks[j + 1] ],
                 i)
         ELSE MergeLoop(blocks, i + 1)

\* _merge_free_blocks that steps on after a merge: pairs only
RECURSIVE MergePairwise(_, _)
MergePairwise(blocks, i) ==
    IF ~(i < Len(blocks)) THEN blocks
    ELSE IF ~blocks[i].allocated /\ ~blocks[i + 1].allocated
         THEN MergePairwise(
                 [ j \in 1..(Len(blocks) - 1) |->
                     IF j < i THEN blocks[j]
                     ELSE IF j = i
                          THEN [blocks[i] EXCEPT !.size = @ + blocks[i + 1].size]
                          ELSE blocks[j + 1] ],
                 i + 1)
         ELSE MergePairwise(blocks, i + 1)

_merge_free_blocks_pairwise(blocks) == MergePairwise(blocks, 1)

_merge_free_blocks(blocks) == MergeLoop(blocks, 1)

\* ---------------------------------------------------------------- allocate
\* AllocateBlocks without "suitable_block.size = size_needed"
AllocateBlocksNoShrink(blocks, bi, size_needed, pid) ==
    LET b     == blocks[bi]
        taken == [b EXCEPT !.allocated = TRUE, !.process_id = pid]
    IN IF b.size > size_needed
       THEN [ j \in 1..(Len(blocks) + 1) |->
                IF j < bi THEN blocks[j]
                ELSE IF j = bi THEN taken
                ELSE IF j = bi + 1
                     THEN MemoryBlock(b.start + size_needed, b.size - size_needed)
                     ELSE blocks[j - 1] ]
       ELSE [blocks EXCEPT ![bi] = taken]

\* AllocateBlocks that appends the remainder at the end of the list
AllocateBlocksAppend(blocks, bi, size_needed, pid) ==
    LET b     == blocks[bi]
        taken == [b EXCEPT !.size = size_needed, !.allocated = TRUE,
                           !.process_id = pid]
    IN IF b.size > size_needed
       THEN Append([blocks EXCEPT ![bi] = taken],
                   MemoryBlock(b.start + size_needed, b.size - size_needed))
       ELSE [blocks EXCEPT ![bi] = taken]

\* the block list after a successful allocate in block bi
AllocateBlocks(blocks, bi, size_needed, pid) ==
    LET b     == blocks[bi]
        taken == [b EXCEPT !.size = size_needed, !.allocated = TRUE,
                           !.process_id = pid]
    IN IF b.size > size_needed
       THEN [ j \in 1..(Len(blocks) + 1) |->
                IF j < bi THEN blocks[j]
                ELSE IF j = bi THEN taken
                ELSE IF j = bi + 1
                     THEN MemoryBlock(b.start + size_needed, b.size - size_needed)
                     ELSE blocks[j - 1] ]
       ELSE [blocks EXCEPT ![bi] = taken]

DictSet(d, k, v) == [ q \in (DOMAIN d) \cup {k} |-> IF q = k THEN v ELSE d[q] ]
DictDel(d, k)    == [ q \in (DOMAIN d) \ {k} |-> d[q] ]

\* allocate that marks the process before it has found a block
AllocateMarkFirst(p) ==
    LET size_needed    == process[p].memory_required
        suitable_block == SuitableBlock(strategy, memory_blocks, size_needed)
    IN /\ IF suitable_block # 0
          THEN /\ process' = [process EXCEPT
                     ![p].memory_allocated = TRUE,
                     ![p].memory_start = memory_blocks[suitable_block].start,
                     ![p].memory_end =
                         memory_blocks[suitable_block].start + size_needed - 1]
               /\ memory_blocks' = AllocateBlocks(memory_blocks, suitable_block,
                                                  size_needed, process[p].pid)
               /\ allocated_blocks' =
                     DictSet(allocated_blocks, process[p].pid,
                             memory_blocks[suitable_block].start)
               /\ call' = [op |-> "allocate", p |-> p, ret |-> TRUE]
          ELSE /\ call' = [op |-> "allocate", p |-> p, ret |-> FALSE]
               /\ process' = [process EXCEPT ![p].memory_allocated = TRUE]
               /\ UNCHANGED <<memory_blocks, allocated_blocks>>
       /\ UNCHANGED <<total_memory, strategy>>
       /\ UNCHANGED sched_vars

Allocate(p) ==
    LET size_needed    == process[p].memory_required
        suitable_block == SuitableBlock(strategy, memory_blocks, size_needed)
    IN /\ IF suitable_block # 0
          THEN /\ process' = [process EXCEPT
                     ![p].memory_allocated = TRUE,
                     ![p].memory_start = memory_blocks[suitable_block].start,
                     ![p].memory_end =
                         memory_blocks[suitable_block].start + size_needed - 1]
               /\ memory_blocks' = AllocateBlocks(memory_blocks, suitable_block,
                                                  size_needed, process[p].pid)
               /\ allocated_blocks' =
                     DictSet(allocated_blocks, process[p].pid,
                             memory_blocks[suitable_block].start)
               /\ call' = [op |-> "allocate", p |-> p, ret |-> TRUE]
          ELSE /\ call' = [op |-> "allocate", p |-> p, ret |-> FALSE]
               /\ UNCHANGED <<process, memory_blocks, allocated_blocks>>
       /\ UNCHANGED <<total_memory, strategy>>
       /\ UNCHANGED sched_vars

\* ---------------------------------------------------------------- deallocate
BlockAt(blocks, start) == CHOOSE i \in 1..Len(blocks) : blocks[i].start = start

\* deallocate without "del self.allocated_blocks[process.pid]"
DeallocateKeepEntry(p) ==
    LET pid == process[p].pid
    IN /\ IF pid \notin DOMAIN allocated_blocks
          THEN /\ call' = [op |-> "deallocate", p |-> p, ret |-> FALSE]
               /\ UNCHANGED <<process, memory_blocks, allocated_blocks>>
          ELSE LET bi == BlockAt(memory_blocks, allocated_blocks[pid])
               IN /\ memory_blocks' = _merge_free_blocks(
                        [memory_blocks EXCEPT ![bi].allocated = FALSE,
                                              ![bi].process_id = None])
                  /\ allocated_blocks' = allocated_blocks
                  /\ process' = [process EXCEPT ![p].memory_allocated = FALSE]
                  /\ call' = [op |-> "deallocate", p |-> p, ret |-> TRUE]
       /\ UNCHANGED <<total_memory, strategy>>
       /\ UNCHANGED sched_vars

Deallocate(p) ==
    LET pid == process[p].pid
    IN /\ IF pid \notin DOMAIN allocated_blocks
          THEN /\ call' = [op |-> "deallocate", p |-> p, ret |-> FALSE]
               /\ UNCHANGED <<process, memory_blocks, allocated_blocks>>
          ELSE LET bi == BlockAt(memory_blocks, allocated_blocks[pid])
               IN /\ memory_blocks' = _merge_free_blocks(
                        [memory_blocks EXCEPT ![bi].allocated = FALSE,
                                              ![bi].process_id = None])
                  /\ allocated_blocks' = DictDel(allocated_blocks, pid)
                  /\ process' = [process EXCEPT ![p].memory_allocated = FALSE]
                  /\ call' = [op |-> "deallocate", p |-> p, ret |-> TRUE]
       /\ UNCHANGED <<total_memory, strategy>>
       /\ UNCHANGED sched_vars


\* ---------------------------------------------------------------- heapq
\* The ready structure of SJF and Priority is a Python heapq of tuples
\* <<key, arrival_time, p>>.  Tuples compare item by item; two Process
\* objects compare by Process.__lt__, that is by priority.
ProcessLess(procs, a, b) == procs[a].priority < procs[b].priority

TupleLess(procs, x, y) ==
    IF x[1] # y[1] THEN x[1] < y[1]
    ELSE IF x[2] # y[2] THEN x[2] < y[2]
    ELSE IF x[3] # y[3] THEN ProcessLess(procs, x[3], y[3])
    ELSE FALSE

\* heap positions are 0-based as in heapq; heap[pos + 1] is the item at pos
RECURSIVE _siftdown(_, _, _, _, _)
_siftdown(procs, heap, startpos, pos, newitem) ==
    IF pos > startpos
    THEN LET parentpos == (pos - 1) \div 2
             parent    == heap[parentpos + 1]
         IN IF TupleLess(procs, newitem, parent)
            THEN _siftdown(procs, [heap EXCEPT ![pos + 1] = parent],
                           startpos, parentpos, newitem)
            ELSE [heap EXCEPT ![pos + 1] = newitem]
    ELSE [heap EXCEPT ![pos + 1] = newitem]

RECURSIVE SiftUpLoop(_, _, _, _, _)
SiftUpLoop(procs, heap, startpos, pos, newitem) ==
    LET endpos   == Len(heap)
        childpos == 2 * pos + 1
        rightpos == childpos + 1
        c == IF rightpos < endpos
                  /\ ~TupleLess(procs, heap[childpos + 1], heap[rightpos + 1])
             THEN rightpos ELSE childpos
    IN IF childpos < endpos
       THEN SiftUpLoop(procs, [heap EXCEPT ![pos + 1] = heap[c + 1]],
                       startpos, c, newitem)
       ELSE _siftdown(procs, [heap EXCEPT ![pos + 1] = newitem],
                      startpos, pos, newitem)

_siftup(procs, heap, pos) == SiftUpLoop(procs, heap, pos, pos, heap[pos + 1])

\* "heap.append(item)": a push that does not restore the heap order
heappushAppend(procs, heap, item) == Append(heap, item)

heappush(procs, heap, item) ==
    _siftdown(procs, Append(heap, item), 0, Len(heap), item)

\* heappop: [item |-> the smallest item, heap |-> the heap without it]
heappop(procs, heap) ==
    LET lastelt == heap[Len(heap)]
        rest    == SubSeq(heap, 1, Len(heap) - 1)
    IN IF rest # <<>>
       THEN [ item |-> rest[1],
              heap |-> _siftup(procs, [rest EXCEPT ![1] = lastelt], 0) ]
       ELSE [ item |-> lastelt, heap |-> rest ]

\* ---------------------------------------------------------------- Scheduler
Algorithms == {"FCFS", "SJF", "Priority", "RR"}

MinOf(a, b) == IF a <= b THEN a ELSE b

\* Scheduler.add_process: [queue, procs] after the call
add_process(alg, queue, procs, p) ==
    LET ready == [procs EXCEPT ![p].state = "READY"]
    IN [ procs |-> ready,
         queue |->
           IF alg = "FCFS" THEN Append(queue, p)
           ELSE IF alg = "SJF"
                THEN heappush(ready, queue,
                        <<ready[p].remaining_time, ready[p].arrival_time, p>>)
           ELSE IF alg = "Priority"
                THEN heappush(ready, queue,
                        <<ready[p].priority, ready[p].arrival_time, p>>)
           ELSE IF alg = "RR" THEN Append(queue, p)
           ELSE queue ]

\* get_next_process with "self.ready_queue.pop()" for the list policies
get_next_process_last(alg, queue, procs) ==
    IF alg \in {"SJF", "Priority"}
    THEN LET popped == heappop(procs, queue)
         IN [ p |-> popped.item[3], queue |-> popped.heap ]
    ELSE [ p |-> queue[Len(queue)], queue |-> SubSeq(queue, 1, Len(queue) - 1) ]

\* Scheduler.get_next_process on a non-empty queue: [p, queue]
get_next_process(alg, queue, procs) ==
    IF alg \in {"SJF", "Priority"}
    THEN LET popped == heappop(procs, queue)
         IN [ p |-> popped.item[3], queue |-> popped.heap ]
    ELSE [ p |-> Head(queue), queue |-> Tail(queue) ]

\* execute without "if process.start_time == -1": every dispatch stamps
executeRestamp(procs, p, time_slice, now, gantt, done) ==
    LET started == [procs[p] EXCEPT !.state = "RUNNING",
                                    !.start_time = now,
                                    !.response_time = now - procs[p].arrival_time]
        execution_time == MinOf(time_slice, started.remaining_time)
        ran       == [started EXCEPT !.remaining_time = @ - execution_time]
        new_time  == now + execution_time
        completed == ran.remaining_time = 0
        finished  == [ran EXCEPT
                        !.state = "TERMINATED",
                        !.completion_time = new_time,
                        !.turnaround_time = new_time - ran.arrival_time,
                        !.waiting_time = (new_time - ran.arrival_time) - ran.burst_time]
    IN [ procs        |-> [procs EXCEPT ![p] = IF completed THEN finished ELSE ran],
         current_time |-> new_time,
         gantt        |-> Append(gantt, [pid |-> procs[p].pid,
                                         start |-> new_time - execution_time,
                                         end |-> new_time]),
         done         |-> IF completed THEN Append(done, p) ELSE done,
         completed    |-> completed ]

\* execute that records "(pid, start, start + time_slice)" in the trace
executeSliceEnd(procs, p, time_slice, now, gantt, done) ==
    LET started == IF procs[p].start_time = -1
                   THEN [procs[p] EXCEPT !.state = "RUNNING",
                                         !.start_time = now,
                                         !.response_time = now - procs[p].arrival_time]
                   ELSE [procs[p] EXCEPT !.state = "RUNNING"]
        execution_time == MinOf(time_slice, started.remaining_time)
        ran       == [started EXCEPT !.remaining_time = @ - execution_time]
        new_time  == now + execution_time
        completed == ran.remaining_time = 0
        finished  == [ran EXCEPT
                        !.state = "TERMINATED",
                        !.completion_time = new_time,
                        !.turnaround_time = new_time - ran.arrival_time,
                        !.waiting_time = (new_time - ran.arrival_time) - ran.burst_time]
    IN [ procs        |-> [procs EXCEPT ![p] = IF completed THEN finished ELSE ran],
         current_time |-> new_time,
         gantt        |-> Append(gantt, [pid |-> procs[p].pid,
                                         start |-> new_time - execution_time,
                                         end |-> (new_time - execution_time) + time_slice]),
         done         |-> IF completed THEN Append(done, p) ELSE done,
         completed    |-> completed ]

\* execute with "waiting_time = start_time - arrival_time"
executeWaitToStart(procs, p, time_slice, now, gantt, done) ==
    LET started == IF procs[p].start_time = -1
                   THEN [procs[p] EXCEPT !.state = "RUNNING",
                                         !.start_time = now,
                                         !.response_time = now - procs[p].arrival_time]
                   ELSE [procs[p] EXCEPT !.state = "RUNNING"]
        execution_time == MinOf(time_slice, started.remaining_time)
        ran       == [started EXCEPT !.remaining_time = @ - execution_time]
        new_time  == now + execution_time
        completed == ran.remaining_time = 0
        finished  == [ran EXCEPT
                        !.state = "TERMINATED",
                        !.completion_time = new_time,
                        !.turnaround_time = new_time - ran.arrival_time,
                        !.waiting_time = ran.start_time - ran.arrival_time]
    IN [ procs        |-> [procs EXCEPT ![p] = IF completed THEN finished ELSE ran],
         current_time |-> new_time,
         gantt        |-> Append(gantt, [pid |-> procs[p].pid,
                                         start |-> new_time - execution_time,
                                         end |-> new_time]),
         done         |-> IF completed THEN Append(done, p) ELSE done,
         completed    |-> completed ]

\* execute with "execution_time = time_slice"
executeWholeSlice(procs, p, time_slice, now, gantt, done) ==
    LET started == IF procs[p].start_time = -1
                   THEN [procs[p] EXCEPT !.state = "RUNNING",
                                         !.start_time = now,
                                         !.response_time = now - procs[p].arrival_time]
                   ELSE [procs[p] EXCEPT !.state = "RUNNING"]
        execution_time == time_slice
        ran       == [started EXCEPT !.remaining_time = @ - execution_time]
        new_time  == now + execution_time
        completed == ran.remaining_time = 0
        finished  == [ran EXCEPT
                        !.state = "TERMINATED",
                        !.completion_time = new_time,
                        !.turnaround_time = new_time - ran.arrival_time,
                        !.waiting_time = (new_time - ran.arrival_time) - ran.burst_time]
    IN [ procs        |-> [procs EXCEPT ![p] = IF completed THEN finished ELSE ran],
         current_time |-> new_time,
         gantt        |-> Append(gantt, [pid |-> procs[p].pid,
                                         start |-> new_time - execution_time,
                                         end |-> new_time]),
         done         |-> IF completed THEN Append(done, p) ELSE done,
         completed    |-> completed ]

\* execute with "waiting_time = completion_time - burst_time"
executeWaitFromZero(procs, p, time_slice, now, gantt, done) ==
    LET started == IF procs[p].start_time = -1
                   THEN [procs[p] EXCEPT !.state = "RUNNING",
                                         !.start_time = now,
                                         !.response_time = now - procs[p].arrival_time]
                   ELSE [procs[p] EXCEPT !.state = "RUNNING"]
        execution_time == MinOf(time_slice, started.remaining_time)
        ran       == [started EXCEPT !.remaining_time = @ - execution_time]
        new_time  == now + execution_time
        completed == ran.remaining_time = 0
        finished  == [ran EXCEPT
                        !.state = "TERMINATED",
                        !.completion_time = new_time,
                        !.turnaround_time = new_time - ran.arrival_time,
                        !.waiting_time = new_time - ran.burst_time]
    IN [ procs        |-> [procs EXCEPT ![p] = IF completed THEN finished ELSE ran],
         current_time |-> new_time,
         gantt        |-> Append(gantt, [pid |-> procs[p].pid,
                                         start |-> new_time - execution_time,
                                         end |-> new_time]),
         done         |-> IF completed THEN Append(done, p) ELSE done,
         completed    |-> completed ]

\* Scheduler.execute: the process record, the clock, the trace and the
\* completed list after running p for at most time_slice
execute(procs, p, time_slice, now, gantt, done) ==
    LET started == IF procs[p].start_time = -1
                   THEN [procs[p] EXCEPT !.state = "RUNNING",
                                         !.start_time = now,
                                         !.response_time = now - procs[p].arrival_time]
                   ELSE [procs[p] EXCEPT !.state = "RUNNING"]
        execution_time == MinOf(time_slice, started.remaining_time)
        ran       == [started EXCEPT !.remaining_time = @ - execution_time]
        new_time  == now + execution_time
        completed == ran.remaining_time = 0
        finished  == [ran EXCEPT
                        !.state = "TERMINATED",
                        !.completion_time = new_time,
                        !.turnaround_time = new_time - ran.arrival_time,
                        !.waiting_time = (new_time - ran.arrival_time) - ran.burst_time]
    IN [ procs        |-> [procs EXCEPT ![p] = IF completed THEN finished ELSE ran],
         current_time |-> new_time,
         gantt        |-> Append(gantt, [pid |-> procs[p].pid,
                                         start |-> new_time - execution_time,
                                         end |-> new_time]),
         done         |-> IF completed THEN Append(done, p) ELSE done,
         completed    |-> completed ]

\* schedule without the sort: the list is taken in input order
InputOrder(procs, processes) == processes

\* sorted(processes, key=lambda p: p.arrival_time): a stable sort
SortedByArrival(procs, processes) ==
    LET before(i, j) ==
            \/ procs[processes[i]].arrival_time < procs[processes[j]].arrival_time
            \/ /\ procs[processes[i]].arrival_time = procs[processes[j]].arrival_time
               /\ i < j
        rank(i) == Cardinality({ j \in 1..Len(processes) : before(j, i) }) + 1
    IN [ r \in 1..Len(processes) |->
           processes[CHOOSE i \in 1..Len(processes) : rank(i) = r] ]

\* the admission loop at the head of each iteration of schedule;
\* process_index is 1-based here: all_processes[process_index] is the next
\* process that has not been admitted
RECURSIVE AdmitArrived(_, _, _, _, _, _)
AdmitArrived(alg, all, now, queue, procs, index) ==
    IF index <= Len(all) /\ procs[all[index]].arrival_time <= now
    THEN LET added == add_process(alg, queue, procs, all[index])
         IN AdmitArrived(alg, all, now, added.queue, added.procs, index + 1)
    ELSE [ queue |-> queue, procs |-> procs, index |-> index ]

\* schedule(processes) is entered: the list is sorted, nothing is admitted
ScheduleCall(processes) ==
    /\ pc = "new"
    /\ all_processes' = SortedByArrival(process, processes)
    /\ process_index' = 1
    /\ pc' = "loop"
    /\ UNCHANGED <<process, algorithm, time_quantum, ready_queue, current_time,
                   completed_processes, gantt_chart>>
    /\ UNCHANGED mem_vars

\* an idle iteration that moves the clock to the arrival of the last
\* process of the list
ScheduleIdleToLast ==
    /\ pc = "loop"
    /\ process_index <= Len(all_processes) \/ ready_queue # <<>>
    /\ LET adm == AdmitArrived(algorithm, all_processes, current_time,
                               ready_queue, process, process_index)
       IN /\ adm.queue = <<>>
          /\ current_time' = IF adm.index <= Len(all_processes)
                             THEN adm.procs[all_processes[Len(all_processes)]].arrival_time
                             ELSE current_time
          /\ ready_queue' = adm.queue
          /\ process' = adm.procs
          /\ process_index' = adm.index
    /\ UNCHANGED <<algorithm, time_quantum, completed_processes, gantt_chart,
                   all_processes, pc>>
    /\ UNCHANGED mem_vars

\* an idle iteration that leaves the clock where it is
ScheduleIdleNoJump ==
    /\ pc = "loop"
    /\ process_index <= Len(all_processes) \/ ready_queue # <<>>
    /\ LET adm == AdmitArrived(algorithm, all_processes, current_time,
                               ready_queue, process, process_index)
       IN /\ adm.queue = <<>>
          /\ current_time' = current_time
          /\ ready_queue' = adm.queue
          /\ process' = adm.procs
          /\ process_index' = adm.index
    /\ UNCHANGED <<algorithm, time_quantum, completed_processes, gantt_chart,
                   all_processes, pc>>
    /\ UNCHANGED mem_vars

\* one iteration of the while loop that finds nothing ready: the clock
\* jumps to the next arrival
ScheduleIdle ==
    /\ pc = "loop"
    /\ process_index <= Len(all_processes) \/ ready_queue # <<>>
    /\ LET adm == AdmitArrived(algorithm, all_processes, current_time,
                               ready_queue, process, process_index)
       IN /\ adm.queue = <<>>
          /\ current_time' = IF adm.index <= Len(all_processes)
                             THEN adm.procs[all_processes[adm.index]].arrival_time
                             ELSE current_time
          /\ ready_queue' = adm.queue
          /\ process' = adm.procs
          /\ process_index' = adm.index
    /\ UNCHANGED <<algorithm, time_quantum, completed_processes, gantt_chart,
                   all_processes, pc>>
    /\ UNCHANGED mem_vars

\* a dispatch that admits with "arrival_time <= current_time + 1"
ScheduleDispatchEarly ==
    /\ pc = "loop"
    /\ process_index <= Len(all_processes) \/ ready_queue # <<>>
    /\ Len(gantt_chart) < MaxTrace
    /\ LET adm == AdmitArrived(algorithm, all_processes, current_time + 1,
                               ready_queue, process, process_index)
       IN /\ adm.queue # <<>>
          /\ LET next  == get_next_process(algorithm, adm.queue, adm.procs)
                 slice == IF algorithm = "RR" THEN time_quantum
                          ELSE adm.procs[next.p].remaining_time
                 ex    == execute(adm.procs, next.p, slice, current_time,
                                  gantt_chart, completed_processes)
                 back  == IF algorithm = "RR" /\ ~ex.completed
                          THEN add_process(algorithm, next.queue, ex.procs, next.p)
                          ELSE [ queue |-> next.queue, procs |-> ex.procs ]
             IN /\ ready_queue' = back.queue
                /\ process' = back.procs
                /\ current_time' = ex.current_time
                /\ gantt_chart' = ex.gantt
                /\ completed_processes' = ex.done
                /\ process_index' = adm.index
    /\ UNCHANGED <<algorithm, time_quantum, all_processes, pc>>
    /\ UNCHANGED mem_vars

\* a dispatch that preempts under every policy: one time unit per slice
\* outside RR, and the unfinished process goes back to the ready structure
ScheduleDispatchPreemptive ==
    /\ pc = "loop"
    /\ process_index <= Len(all_processes) \/ ready_queue # <<>>
    /\ Len(gantt_chart) < MaxTrace
    /\ LET adm == AdmitArrived(algorithm, all_processes, current_time,
                               ready_queue, process, process_index)
       IN /\ adm.queue # <<>>
          /\ LET next  == get_next_process(algorithm, adm.queue, adm.procs)
                 slice == IF algorithm = "RR" THEN time_quantum ELSE 1
                 ex    == execute(adm.procs, next.p, slice, current_time,
                                  gantt_chart, completed_processes)
                 back  == IF ~ex.completed
                          THEN add_process(algorithm, next.queue, ex.procs, next.p)
                          ELSE [ queue |-> next.queue, procs |-> ex.procs ]
             IN /\ ready_queue' = back.queue
                /\ process' = back.procs
                /\ current_time' = ex.current_time
                /\ gantt_chart' = ex.gantt
                /\ completed_processes' = ex.done
                /\ process_index' = adm.index
    /\ UNCHANGED <<algorithm, time_quantum, all_processes, pc>>
    /\ UNCHANGED mem_vars

\* one iteration of the while loop that dispatches a process
ScheduleDispatch ==
    /\ pc = "loop"
    /\ process_index <= Len(all_processes) \/ ready_queue # <<>>
    /\ Len(gantt_chart) < MaxTrace
    /\ LET adm == AdmitArrived(algorithm, all_processes, current_time,
                               ready_queue, process, process_index)
       IN /\ adm.queue # <<>>
          /\ LET next  == get_next_process(algorithm, adm.queue, adm.procs)
                 slice == IF algorithm = "RR" THEN time_quantum
                          ELSE adm.procs[next.p].remaining_time
                 ex    == execute(adm.procs, next.p, slice, current_time,
                                  gantt_chart, completed_processes)
                 back  == IF algorithm = "RR" /\ ~ex.completed
                          THEN add_process(algorithm, next.queue, ex.procs, next.p)
                          ELSE [ queue |-> next.queue, procs |-> ex.procs ]
             IN /\ ready_queue' = back.queue
                /\ process' = back.procs
                /\ current_time' = ex.current_time
                /\ gantt_chart' = ex.gantt
                /\ completed_processes' = ex.done
                /\ process_index' = adm.index
    /\ UNCHANGED <<algorithm, time_quantum, all_processes, pc>>
    /\ UNCHANGED mem_vars

\* the loop condition fails: schedule returns completed_processes
ScheduleReturn ==
    /\ pc = "loop"
    /\ ~(process_index <= Len(all_processes) \/ ready_queue # <<>>)
    /\ pc' = "done"
    /\ UNCHANGED <<process, algorithm, time_quantum, ready_queue, current_time,
                   completed_processes, gantt_chart, all_processes, process_index>>
    /\ UNCHANGED mem_vars

\* ---------------------------------------------------------------- metrics
RECURSIVE SumOver(_, _)
SumOver(sizes, i) ==
    IF i > Len(sizes) THEN 0 ELSE sizes[i] + SumOver(sizes, i + 1)

RECURSIVE MaxOver(_, _)
MaxOver(sizes, i) ==
    IF i = Len(sizes) THEN sizes[i]
    ELSE LET rest == MaxOver(sizes, i + 1)
         IN IF sizes[i] >= rest THEN sizes[i] ELSE rest

\* the sizes of the blocks whose allocated flag is flag, in list order
RECURSIVE SizesWhere(_, _, _)
SizesWhere(blocks, flag, i) ==
    IF i > Len(blocks) THEN <<>>
    ELSE IF blocks[i].allocated = flag
         THEN <<blocks[i].size>> \o SizesWhere(blocks, flag, i + 1)
         ELSE SizesWhere(blocks, flag, i + 1)

\* get_fragmentation with "largest_free / total_free" as the ratio
get_fragmentation_largest(blocks) ==
    LET free_blocks == SizesWhere(blocks, FALSE, 1)
    IN IF free_blocks = <<>>
       THEN [ numerator |-> 0, denominator |-> 1 ]
       ELSE LET total_free   == SumOver(free_blocks, 1)
                largest_free == MaxOver(free_blocks, 1)
            IN IF total_free = 0
               THEN [ numerator |-> 0, denominator |-> 1 ]
               ELSE [ numerator |-> largest_free,
                      denominator |-> total_free ]

\* MemoryManager.get_fragmentation: the value returned is
\* (numerator / denominator) * 100; both early returns give 0.0
get_fragmentation(blocks) ==
    LET free_blocks == SizesWhere(blocks, FALSE, 1)
    IN IF free_blocks = <<>>
       THEN [ numerator |-> 0, denominator |-> 1 ]
       ELSE LET total_free   == SumOver(free_blocks, 1)
                largest_free == MaxOver(free_blocks, 1)
            IN IF total_free = 0
               THEN [ numerator |-> 0, denominator |-> 1 ]
               ELSE [ numerator |-> total_free - largest_free,
                      denominator |-> total_free ]

\* MemoryManager.get_utilization: the value returned is
\* (used_memory / total) * 100; the division raises ZeroDivisionError when
\* total is 0
get_utilization(blocks, total) ==
    [ raises      |-> total = 0,
      used_memory |-> SumOver(SizesWhere(blocks, TRUE, 1), 1),
      total       |-> total ]

\* ---------------------------------------------------------------- specifications
NoCall == [op |-> "none", p |-> 0, ret |-> FALSE]

\* no run_simulation is in progress: the components are driven directly
NoRun == [phase |-> "none", index |-> 0, results |-> <<>>,
          allocated_processes |-> <<>>]

\* a Scheduler as constructed, before schedule is called
SchedulerInit(alg, quantum) ==
    /\ algorithm = alg
    /\ time_quantum = quantum
    /\ ready_queue = <<>>
    /\ current_time = 0
    /\ completed_processes = <<>>
    /\ gantt_chart = <<>>
    /\ all_processes = <<>>
    /\ process_index = 1
    /\ pc = "new"

\* a MemoryManager as constructed
MemoryManagerInit(total, strat) ==
    /\ total_memory = total
    /\ strategy = strat
    /\ memory_blocks = <<MemoryBlock(0, total)>>
    /\ allocated_blocks = <<>>
    /\ call = NoCall

\* Allocator runs: any sequence of allocate and deallocate calls
Init ==
    /\ \E total \in 1..MaxMemory, strat \in Strategies :
          MemoryManagerInit(total, strat)
    /\ \E reqs \in [ProcIds -> 1..MaxReq] :
          process = [ i \in ProcIds |-> Process(PidOf(i), 0, 1, reqs[i], 0) ]
    /\ SchedulerInit("FCFS", 2)
    /\ driver = NoRun

Next ==
    \/ \E p \in ProcIds : Allocate(p) /\ UNCHANGED driver
    \/ \E p \in ProcIds : Deallocate(p) /\ UNCHANGED driver

Spec == Init /\ [][Next]_vars

\* Allocator runs on a MemoryManager constructed with any total_memory
ConfigInit ==
    /\ \E total \in (0 - MaxNegMemory)..MaxMemory, strat \in Strategies :
          MemoryManagerInit(total, strat)
    /\ \E reqs \in [ProcIds -> 1..MaxReq] :
          process = [ i \in ProcIds |-> Process(PidOf(i), 0, 1, reqs[i], 0) ]
    /\ SchedulerInit("FCFS", 2)
    /\ driver = NoRun

ConfigSpec == ConfigInit /\ [][Next]_vars

\* Scheduler runs: schedule is called once on NumJobs processes with pids
\* 1..NumJobs in list order.  priority keeps its default 0 where the
\* algorithm never reads it.
JobsInit(alg) ==
    \E arr \in [JobIds -> 0..MaxArrival], bur \in [JobIds -> 1..MaxBurst],
       pri \in [JobIds -> IF alg \in {"SJF", "Priority"}
                          THEN 0..MaxPriority ELSE {0}] :
        process = [ i \in JobIds |-> Process(i, arr[i], bur[i], 1, pri[i]) ]

\* two custom inputs of three processes: arrivals [0,0,0] with bursts
\* [4,4,4], and arrivals [0,1,2] with bursts [5,3,2]
EqualJobs     == [ i \in 1..3 |-> Process(i, 0, 4, 1, 0) ]
StaggeredJobs == << Process(1, 0, 5, 1, 0), Process(2, 1, 3, 1, 0),
                    Process(3, 2, 2, 1, 0) >>
\* a custom input whose first burst is no multiple of the quantum 2
UnevenJobs    == << Process(1, 0, 3, 1, 0), Process(2, 0, 1, 1, 0) >>

SchedInit ==
    /\ MemoryManagerInit(1, "First-Fit")
    /\ \/ \E alg \in Algorithms :
             /\ JobsInit(alg)
             /\ \E q \in (IF alg = "RR" THEN 1..MaxQuantum ELSE {0}) :
                   SchedulerInit(alg, q)
       \/ process = EqualJobs /\ SchedulerInit("RR", 2)
       \/ process = StaggeredJobs /\ SchedulerInit("FCFS", 0)
       \/ process = UnevenJobs /\ SchedulerInit("RR", 2)
       \/ /\ process = <<>>
          /\ \E alg \in Algorithms :
                \E q \in (IF alg = "RR" THEN 1..MaxQuantum ELSE {0}) :
                   SchedulerInit(alg, q)
    /\ driver = NoRun

SchedNext ==
    \/ ScheduleCall([ i \in DOMAIN process |-> i ]) /\ UNCHANGED driver
    \/ ScheduleIdle /\ UNCHANGED driver
    \/ ScheduleDispatch /\ UNCHANGED driver
    \/ ScheduleReturn /\ UNCHANGED driver

SchedSpec == SchedInit /\ [][SchedNext]_vars

\* the condition under which an iteration of the loop dispatches: the
\* guard of ScheduleDispatch, whose other conjuncts assign
DispatchEnabled ==
    /\ pc = "loop"
    /\ process_index <= Len(all_processes) \/ ready_queue # <<>>
    /\ Len(gantt_chart) < MaxTrace
    /\ AdmitArrived(algorithm, all_processes, current_time,
                    ready_queue, process, process_index).queue # <<>>

\* schedule is a sequential loop: whatever step it can take next, it takes.
\* The last conjunct is WF_vars(ScheduleDispatch /\ UNCHANGED driver) with
\* ENABLED <<ScheduleDispatch /\ UNCHANGED driver>>_vars written out as
\* DispatchEnabled (a dispatch always lengthens gantt_chart).
SchedFairSpec ==
    /\ SchedInit
    /\ [][SchedNext]_vars
    /\ WF_vars(ScheduleCall([ i \in DOMAIN process |-> i ]) /\ UNCHANGED driver)
    /\ WF_vars(ScheduleIdle /\ UNCHANGED driver)
    /\ WF_vars(ScheduleReturn /\ UNCHANGED driver)
    /\ ([]<>(~DispatchEnabled) \/ []<><<ScheduleDispatch /\ UNCHANGED driver>>_vars)

\* Scheduler runs in which the constructor is given any time_quantum
QuantumInit ==
    /\ MemoryManagerInit(1, "First-Fit")
    /\ JobsInit("RR")
    /\ \E q \in (0 - MaxNegQuantum)..MaxQuantum : SchedulerInit("RR", q)
    /\ driver = NoRun

QuantumSpec == QuantumInit /\ [][SchedNext]_vars

\* ---------------------------------------------------------------- run_simulation
\* "allocated_processes = processes": nothing is filtered out
AllProcesses(procs, processes) == processes

\* "[p for p in processes if p.memory_allocated]"
AllocatedProcesses(procs, processes) ==
    SelectSeq(processes, LAMBDA p : procs[p].memory_allocated)

\* run_simulation is entered with RunProcs fresh processes, pids 1..RunProcs
\* in list order, and has constructed its Scheduler and MemoryManager
RunInit ==
    /\ \E total \in 1..RunMemory, strat \in Strategies :
          MemoryManagerInit(total, strat)
    /\ \E alg \in Algorithms :
          \E q \in (IF alg = "RR" THEN 1..MaxQuantum ELSE {0}) :
             SchedulerInit(alg, q)
    /\ \E arr \in [1..RunProcs -> 0..RunMaxArrival],
          bur \in [1..RunProcs -> 1..MaxBurst],
          req \in [1..RunProcs -> 1..RunMaxReq] :
          process = [ i \in 1..RunProcs |-> Process(i, arr[i], bur[i], req[i], 0) ]
    /\ driver = [phase |-> "allocate", index |-> 1, results |-> <<>>,
                 allocated_processes |-> <<>>]

\* Phase 1: one iteration of "for process in processes"
RunAllocate ==
    /\ driver.phase = "allocate"
    /\ driver.index <= RunProcs
    /\ Allocate(driver.index)
    /\ driver' = [driver EXCEPT !.index = @ + 1,
                                !.results = Append(@, call'.ret)]

\* the loop is over and no process holds memory: run_simulation returns
RunNoneAllocated ==
    /\ driver.phase = "allocate"
    /\ driver.index > RunProcs
    /\ LET allocated_processes ==
              AllocatedProcesses(process, [ i \in 1..RunProcs |-> i ])
       IN /\ allocated_processes = <<>>
          /\ driver' = [driver EXCEPT !.phase = "terminated",
                                      !.allocated_processes = allocated_processes]
    /\ UNCHANGED process
    /\ UNCHANGED mem_vars
    /\ UNCHANGED sched_vars

\* Phase 2: the loop is over and scheduler.schedule(allocated_processes)
\* is entered
RunSchedule ==
    /\ driver.phase = "allocate"
    /\ driver.index > RunProcs
    /\ LET allocated_processes ==
              AllocatedProcesses(process, [ i \in 1..RunProcs |-> i ])
       IN /\ allocated_processes # <<>>
          /\ ScheduleCall(allocated_processes)
          /\ driver' = [driver EXCEPT !.phase = "schedule",
                                      !.allocated_processes = allocated_processes]

RunIdle ==
    /\ driver.phase = "schedule"
    /\ ScheduleIdle
    /\ UNCHANGED driver

RunDispatch ==
    /\ driver.phase = "schedule"
    /\ ScheduleDispatch
    /\ UNCHANGED driver

\* Phase 4 as "for process in completed[1:]"
RunScheduleReturnSkipFirst ==
    /\ driver.phase = "schedule"
    /\ ScheduleReturn
    /\ driver' = [driver EXCEPT !.phase = "deallocate", !.index = 2]

\* schedule returns "completed"; Phase 4 starts
RunScheduleReturn ==
    /\ driver.phase = "schedule"
    /\ ScheduleReturn
    /\ driver' = [driver EXCEPT !.phase = "deallocate", !.index = 1]

\* Phase 4: one iteration of "for process in completed"
RunDeallocate ==
    /\ driver.phase = "deallocate"
    /\ driver.index <= Len(completed_processes)
    /\ Deallocate(completed_processes[driver.index])
    /\ driver' = [driver EXCEPT !.index = @ + 1]

\* the deallocation loop is over: run_simulation returns
RunCompleted ==
    /\ driver.phase = "deallocate"
    /\ driver.index > Len(completed_processes)
    /\ driver' = [driver EXCEPT !.phase = "completed"]
    /\ UNCHANGED process
    /\ UNCHANGED mem_vars
    /\ UNCHANGED sched_vars

RunNext ==
    \/ RunAllocate
    \/ RunNoneAllocated
    \/ RunSchedule
    \/ RunIdle
    \/ RunDispatch
    \/ RunScheduleReturn
    \/ RunDeallocate
    \/ RunCompleted

RunSpec == RunInit /\ [][RunNext]_vars

\* ================================================================ properties
FreeBlocks(blocks) == { i \in 1..Len(blocks) : ~blocks[i].allocated }

RECURSIVE SumSizes(_, _)
SumSizes(blocks, i) ==
    IF i > Len(blocks) THEN 0 ELSE blocks[i].size + SumSizes(blocks, i + 1)

\* the last call was op on process p
Called(op) == call.op = op
\* in a step, the call being made is op on process p
Calling(op, p) == call'.op = op /\ call'.p = p

\* C1 (partition invariant): in every state reached by allocate and
\* deallocate calls the block list is sorted by start, starts at 0, each
\* block starts where the previous one ends, every size is positive and
\* the sizes sum to total_memory.
C1_PartitionInvariant ==
    /\ Len(memory_blocks) >= 1
    /\ memory_blocks[1].start = 0
    /\ \A i \in 1..Len(memory_blocks) : memory_blocks[i].size > 0
    /\ \A i \in 1..(Len(memory_blocks) - 1) :
          memory_blocks[i + 1].start = memory_blocks[i].start + memory_blocks[i].size
    /\ \A i, j \in 1..Len(memory_blocks) :
          i < j => memory_blocks[i].start < memory_blocks[j].start
    /\ SumSizes(memory_blocks, 1) = total_memory

\* a split and a later merge have both happened: a deallocate succeeded and
\* left at least three blocks, free and allocated ones
C1_Witness ==
    /\ Called("deallocate") /\ call.ret
    /\ Len(memory_blocks) >= 3
    /\ \E i, j \in 1..Len(memory_blocks) :
          memory_blocks[i].allocated /\ ~memory_blocks[j].allocated

\* C2 (merge completeness): after a successful deallocate no two
\* neighbouring blocks are both free.
C2_MergeComplete ==
    (Called("deallocate") /\ call.ret) =>
        \A i \in 1..(Len(memory_blocks) - 1) :
            memory_blocks[i].allocated \/ memory_blocks[i + 1].allocated

\* the block freed by the last deallocate had a free block on either side:
\* the range the process held lies strictly inside one free block
C2_Witness ==
    /\ Called("deallocate") /\ call.ret
    /\ \E i \in FreeBlocks(memory_blocks) :
          /\ memory_blocks[i].start < process[call.p].memory_start
          /\ process[call.p].memory_end <
                memory_blocks[i].start + memory_blocks[i].size - 1

\* C6 (allocation failure has no effect): an allocate for which no free
\* block is large enough, in particular one asking for more than
\* total_memory, returns False and leaves the block list, the ownership map
\* and the process unchanged.
C6_AllocFailureNoEffect ==
    [][ \A p \in DOMAIN process :
          ( /\ Calling("allocate", p)
            /\ \/ \A i \in FreeBlocks(memory_blocks) :
                     memory_blocks[i].size < process[p].memory_required
               \/ process[p].memory_required > total_memory )
          => ( /\ call'.ret = FALSE
               /\ UNCHANGED <<memory_blocks, allocated_blocks, process>> ) ]_vars

\* an allocate asking for more than total_memory has failed while another
\* process holds a block
C6_Witness ==
    /\ Called("allocate") /\ ~call.ret
    /\ process[call.p].memory_required > total_memory
    /\ allocated_blocks # <<>>

\* C7 (idempotent failure of deallocate): deallocate of a process whose pid
\* is in the ownership map returns True and removes the entry; deallocate of
\* a pid that is not in the map returns False and changes nothing; so a
\* second deallocate right after a successful one returns False and changes
\* nothing.
C7_DeallocateIdempotent ==
    [][ \A p \in DOMAIN process :
          Calling("deallocate", p) =>
            /\ IF process[p].pid \in DOMAIN allocated_blocks
               THEN /\ call'.ret = TRUE
                    /\ process[p].pid \notin DOMAIN allocated_blocks'
               ELSE /\ call'.ret = FALSE
                    /\ UNCHANGED <<memory_blocks, allocated_blocks, process>>
            /\ (Called("deallocate") /\ call.p = p /\ call.ret) =>
                  /\ call'.ret = FALSE
                  /\ UNCHANGED <<memory_blocks, allocated_blocks, process>> ]_vars

\* a deallocate has returned False for a process that was allocated and
\* then deallocated (its flag is cleared, its bounds are still there), while
\* another process holds a block
C7_Witness ==
    /\ Called("deallocate") /\ ~call.ret
    /\ ~process[call.p].memory_allocated
    /\ process[call.p].memory_start >= 0
    /\ allocated_blocks # <<>>

\* C9 (Best-Fit selection): under Best-Fit a successful allocate of size s
\* takes the free block of least size among those of size >= s, the lowest
\* one among equals, and allocate fails only when no free block has
\* size >= s; free sizes [50,200,80] and s = 70 select the 80 block.
C9_Example ==
    <<MemoryBlock(0, 50), MemoryBlock(50, 200), MemoryBlock(250, 80)>>

C9_BestFitSelection ==
    [][ /\ _best_fit(C9_Example, 70) = 3
        /\ \A p \in DOMAIN process :
             (strategy = "Best-Fit" /\ Calling("allocate", p)) =>
               LET s   == process[p].memory_required
                   fit == { i \in FreeBlocks(memory_blocks) :
                               memory_blocks[i].size >= s }
               IN IF call'.ret
                  THEN \E i \in fit :
                         /\ \A k \in fit :
                              /\ memory_blocks[i].size <= memory_blocks[k].size
                              /\ memory_blocks[k].size = memory_blocks[i].size
                                    => i <= k
                         /\ process'[p].memory_start = memory_blocks[i].start
                         /\ memory_blocks'[i].allocated
                         /\ memory_blocks'[i].process_id = process[p].pid
                         /\ memory_blocks'[i].start = memory_blocks[i].start
                  ELSE fit = {} ]_vars

\* Best-Fit has passed over a lower free block that was large enough
C9_Witness ==
    /\ strategy = "Best-Fit"
    /\ Called("allocate") /\ call.ret
    /\ \E i \in FreeBlocks(memory_blocks) :
          /\ memory_blocks[i].start < process[call.p].memory_start
          /\ memory_blocks[i].size >= process[call.p].memory_required

\* C10 (Worst-Fit selection): under Worst-Fit a successful allocate takes
\* the largest free block, the lowest one among equals, and allocate fails
\* exactly when the largest free block is smaller than s.
C10_WorstFitSelection ==
    [][ \A p \in DOMAIN process :
          (strategy = "Worst-Fit" /\ Calling("allocate", p)) =>
            LET s    == process[p].memory_required
                free == FreeBlocks(memory_blocks)
            IN /\ call'.ret = (\E k \in free : memory_blocks[k].size >= s)
               /\ call'.ret =>
                    \E i \in free :
                      /\ \A k \in free :
                           /\ memory_blocks[i].size >= memory_blocks[k].size
                           /\ memory_blocks[k].size = memory_blocks[i].size
                                 => i <= k
                      /\ process'[p].memory_start = memory_blocks[i].start
                      /\ memory_blocks'[i].allocated
                      /\ memory_blocks'[i].process_id = process[p].pid
                      /\ memory_blocks'[i].start = memory_blocks[i].start ]_vars

\* Worst-Fit has passed over a lower free block that was large enough
C10_Witness ==
    /\ strategy = "Worst-Fit"
    /\ Called("allocate") /\ call.ret
    /\ \E i \in FreeBlocks(memory_blocks) :
          /\ memory_blocks[i].start < process[call.p].memory_start
          /\ memory_blocks[i].size >= process[call.p].memory_required

\* ---------------------------------------------------------------- scheduler
\* the Process object with a given pid (pids are unique in a scheduler run)
ProcOfPid(pid) == CHOOSE p \in DOMAIN process : process[p].pid = pid

\* the position of Process p in all_processes, its insertion order among
\* processes that arrive together
PosOf(p) == CHOOSE i \in 1..Len(all_processes) : all_processes[i] = p

Dispatched(p) == \E k \in 1..Len(gantt_chart) : gantt_chart[k].pid = process[p].pid

\* C3 (RR re-admission order), as claimed: when slice k of an RR run ends
\* with its process unfinished, every process that arrived during the slice
\* or exactly at its end is dispatched before the preempted process runs
\* again.
C3_ArrivalsBeforePreempted ==
    algorithm = "RR" =>
      \A k, j \in 1..Len(gantt_chart) : \A q \in DOMAIN process :
        ( /\ k < j
          /\ gantt_chart[j].pid = gantt_chart[k].pid
          /\ process[q].pid # gantt_chart[k].pid
          /\ gantt_chart[k].start < process[q].arrival_time
          /\ process[q].arrival_time <= gantt_chart[k].end )
        => \E i \in (k + 1)..(j - 1) : gantt_chart[i].pid = process[q].pid

\* C4 (SJF and Priority tie-break), as claimed: of two processes with equal
\* primary key that are both in the ready structure, the one that arrived
\* earlier is dispatched first, and of two that arrived together the one
\* inserted first.
PrimaryKey(p) ==
    IF algorithm = "SJF" THEN process[p].burst_time ELSE process[p].priority

C4_TieBreakStable ==
    algorithm \in {"SJF", "Priority"} =>
      \A i, j \in 1..Len(gantt_chart) :
        LET p == ProcOfPid(gantt_chart[i].pid)
            q == ProcOfPid(gantt_chart[j].pid)
        IN ( /\ i < j
             /\ PrimaryKey(p) = PrimaryKey(q)
             /\ process[q].arrival_time <= gantt_chart[i].start )
           => \/ process[p].arrival_time < process[q].arrival_time
              \/ /\ process[p].arrival_time = process[q].arrival_time
                 /\ PosOf(p) < PosOf(q)

\* C5 (quantum guard), as claimed: a Scheduler with policy RR and
\* time_quantum <= 0 never gets to run: schedule executes no slice of zero
\* or negative length.
C5_QuantumGuard ==
    (algorithm = "RR" /\ time_quantum <= 0) =>
        \A k \in 1..Len(gantt_chart) : gantt_chart[k].start < gantt_chart[k].end

\* C8 (conservation), as claimed: once the processes are handed to
\* schedule, turnaround_time = waiting_time + burst_time and
\* response_time = start_time - arrival_time in every state.
C8_ConservationAlways ==
    pc # "new" =>
      \A p \in DOMAIN process :
        /\ process[p].turnaround_time = process[p].waiting_time + process[p].burst_time
        /\ process[p].response_time = process[p].start_time - process[p].arrival_time

\* C8 as amended: turnaround_time = waiting_time + burst_time for every
\* process that has completed, and response_time = start_time -
\* arrival_time for every process that has been dispatched.
C8_ConservationWhenSet ==
    \A p \in DOMAIN process :
      /\ process[p].state = "TERMINATED" =>
            process[p].turnaround_time = process[p].waiting_time + process[p].burst_time
      /\ Dispatched(p) =>
            process[p].response_time = process[p].start_time - process[p].arrival_time

\* one process has completed after waiting, another that arrived late is
\* between two slices
C8_Witness ==
    \E p, q \in DOMAIN process :
      /\ process[p].state = "TERMINATED" /\ process[p].waiting_time > 0
      /\ process[p].arrival_time > 0
      /\ process[q].state = "READY" /\ Dispatched(q)
      /\ process[q].response_time > 0

\* ---------------------------------------------------------------- C11..C20
\* C11 (First-Fit selection): under First-Fit a successful allocate of size
\* s takes the lowest free block of size >= s, whatever lies above it, and
\* allocate fails only when no free block has size >= s.
C11_FirstFitSelection ==
    [][ \A p \in DOMAIN process :
          (strategy = "First-Fit" /\ Calling("allocate", p)) =>
            LET s   == process[p].memory_required
                fit == { i \in FreeBlocks(memory_blocks) :
                            memory_blocks[i].size >= s }
            IN IF call'.ret
               THEN \E i \in fit :
                      /\ \A k \in fit : i <= k
                      /\ process'[p].memory_start = memory_blocks[i].start
                      /\ memory_blocks'[i].allocated
                      /\ memory_blocks'[i].process_id = process[p].pid
                      /\ memory_blocks'[i].start = memory_blocks[i].start
               ELSE fit = {} ]_vars

\* First-Fit has split a block although a tighter free block lay above it:
\* the remainder follows the process's block, and a higher free block is
\* large enough and smaller than the block that was split
C11_Witness ==
    /\ strategy = "First-Fit"
    /\ Called("allocate") /\ call.ret
    /\ \E r, j \in FreeBlocks(memory_blocks) :
          /\ memory_blocks[r].start = process[call.p].memory_end + 1
          /\ memory_blocks[j].start > memory_blocks[r].start
          /\ memory_blocks[j].size >= process[call.p].memory_required
          /\ memory_blocks[j].size <
                process[call.p].memory_required + memory_blocks[r].size

\* C12 (effect of a successful allocate): the chosen free block at address
\* a becomes an allocated block of exactly memory_required units at a owned
\* by the pid; a larger block leaves a free block with exactly the
\* remainder right after it, otherwise no block is added; every other block
\* is unchanged; the process gets memory_allocated = True, memory_start = a
\* and memory_end = a + memory_required - 1, and no other process changes.
C12_AllocateEffect ==
    [][ \A p \in DOMAIN process :
          (Calling("allocate", p) /\ call'.ret) =>
            LET s == process[p].memory_required
                a == process'[p].memory_start
            IN \E i \in FreeBlocks(memory_blocks) :
                 /\ memory_blocks[i].start = a
                 /\ memory_blocks[i].size >= s
                 /\ memory_blocks'[i] = [ start |-> a, size |-> s,
                                          allocated |-> TRUE,
                                          process_id |-> process[p].pid ]
                 /\ \A j \in 1..(i - 1) : memory_blocks'[j] = memory_blocks[j]
                 /\ IF memory_blocks[i].size > s
                    THEN /\ Len(memory_blocks') = Len(memory_blocks) + 1
                         /\ memory_blocks'[i + 1] =
                               [ start |-> a + s,
                                 size |-> memory_blocks[i].size - s,
                                 allocated |-> FALSE, process_id |-> None ]
                         /\ \A j \in (i + 1)..Len(memory_blocks) :
                               memory_blocks'[j + 1] = memory_blocks[j]
                    ELSE /\ Len(memory_blocks') = Len(memory_blocks)
                         /\ \A j \in (i + 1)..Len(memory_blocks) :
                               memory_blocks'[j] = memory_blocks[j]
                 /\ process' = [process EXCEPT ![p].memory_allocated = TRUE,
                                               ![p].memory_start = a,
                                               ![p].memory_end = a + s - 1] ]_vars

\* a block in the middle of the list has been split: the process's block
\* is neither first nor last, a free remainder follows it, and another
\* block follows the remainder
C12_Witness ==
    /\ Called("allocate") /\ call.ret
    /\ \E i \in 2..(Len(memory_blocks) - 2) :
          /\ memory_blocks[i].start = process[call.p].memory_start
          /\ memory_blocks[i].allocated
          /\ ~memory_blocks[i + 1].allocated

\* C13 (RR trace): under RR with time_quantum >= 1 every slice has length
\* min(time_quantum, remaining_time) of the dispatched process; once every
\* process has been admitted the head of the queue is dispatched and, if
\* unfinished, goes to the tail; for arrivals [0,0,0], bursts [4,4,4] and
\* quantum 2 the trace is (1,0,2),(2,2,4),(3,4,6),(1,6,8),(2,8,10),(3,10,12)
\* and the waiting times are 4, 6 and 8.
C13_RoundRobinTrace ==
    [][ /\ (algorithm = "RR" /\ time_quantum >= 1 /\
            Len(gantt_chart') = Len(gantt_chart) + 1) =>
              LET e == gantt_chart'[Len(gantt_chart')]
                  p == ProcOfPid(e.pid)
                  len == MinOf(time_quantum, process[p].remaining_time)
              IN /\ e.start = current_time
                 /\ e.end = current_time + len
                 /\ process'[p].remaining_time = process[p].remaining_time - len
                 /\ (process_index > Len(all_processes)) =>
                       /\ p = Head(ready_queue)
                       /\ ready_queue' =
                            IF process[p].remaining_time > len
                            THEN Append(Tail(ready_queue), p)
                            ELSE Tail(ready_queue)
        /\ (pc' = "done" /\ algorithm = "RR" /\ time_quantum = 2 /\
            DOMAIN process = 1..3 /\
            \A i \in 1..3 : /\ process[i].pid = i
                            /\ process[i].arrival_time = 0
                            /\ process[i].burst_time = 4) =>
              /\ gantt_chart' =
                   << [pid |-> 1, start |-> 0,  end |-> 2],
                      [pid |-> 2, start |-> 2,  end |-> 4],
                      [pid |-> 3, start |-> 4,  end |-> 6],
                      [pid |-> 1, start |-> 6,  end |-> 8],
                      [pid |-> 2, start |-> 8,  end |-> 10],
                      [pid |-> 3, start |-> 10, end |-> 12] >>
              /\ process'[1].waiting_time = 4
              /\ process'[2].waiting_time = 6
              /\ process'[3].waiting_time = 8 ]_vars

\* the run on arrivals [0,0,0], bursts [4,4,4], quantum 2 has returned
C13_Witness ==
    /\ pc = "done" /\ algorithm = "RR" /\ time_quantum = 2
    /\ Len(gantt_chart) = 6
    /\ \A i \in DOMAIN process : process[i].burst_time = 4

\* C14 (FCFS order): under FCFS the trace lists the processes by ascending
\* arrival_time, equal arrivals in input-list order, no process twice, and
\* when schedule returns every process has one interval; for arrivals
\* [0,1,2] and bursts [5,3,2] the trace is (1,0,5),(2,5,8),(3,8,10).
C14_FcfsOrder ==
    algorithm = "FCFS" =>
      /\ \A k, l \in 1..Len(gantt_chart) :
            k < l =>
              LET p == ProcOfPid(gantt_chart[k].pid)
                  q == ProcOfPid(gantt_chart[l].pid)
              IN \/ process[p].arrival_time < process[q].arrival_time
                 \/ /\ process[p].arrival_time = process[q].arrival_time
                    /\ p < q
      /\ pc = "done" =>
            /\ Len(gantt_chart) = Cardinality(DOMAIN process)
            /\ \A p \in DOMAIN process : Dispatched(p)
      /\ (pc = "done" /\ DOMAIN process = 1..3 /\
          \A i \in 1..3 : /\ process[i].pid = i
                          /\ process[i].arrival_time = i - 1
                          /\ process[i].burst_time = StaggeredJobs[i].burst_time) =>
            gantt_chart = << [pid |-> 1, start |-> 0, end |-> 5],
                             [pid |-> 2, start |-> 5, end |-> 8],
                             [pid |-> 3, start |-> 8, end |-> 10] >>

\* the run on arrivals [0,1,2], bursts [5,3,2] has returned
C14_Witness ==
    /\ pc = "done" /\ algorithm = "FCFS"
    /\ DOMAIN process = 1..3
    /\ \A i \in 1..3 : process[i].burst_time = StaggeredJobs[i].burst_time
    /\ Len(gantt_chart) = 3

\* C15 (allocator configuration validated), as claimed: no MemoryManager
\* exists with total_memory <= 0, so no state holds a block of non-positive
\* size and get_utilization never raises.
C15_ConfigValidated ==
    /\ total_memory > 0
    /\ \A i \in 1..Len(memory_blocks) : memory_blocks[i].size > 0
    /\ ~get_utilization(memory_blocks, total_memory).raises

\* C16 (deallocation clears the memory state), as claimed: a successful
\* deallocate leaves the process with memory_allocated False and with
\* memory_start and memory_end back at their unset value -1.
C16_DeallocateClears ==
    [][ \A p \in DOMAIN process :
          (Calling("deallocate", p) /\ call'.ret) =>
            /\ ~process'[p].memory_allocated
            /\ process'[p].memory_start = -1
            /\ process'[p].memory_end = -1 ]_vars

\* C17 (fragmentation bound): in every state reached by allocate and
\* deallocate calls get_fragmentation divides by a positive number, its
\* numerator total_free - largest_free lies in 0..total_free, and the
\* result is 0 whenever at most one free block exists, also when none does.
C17_FragmentationBound ==
    LET f    == get_fragmentation(memory_blocks)
        free == FreeBlocks(memory_blocks)
    IN /\ f.denominator > 0
       /\ 0 <= f.numerator /\ f.numerator <= f.denominator
       /\ free # {} =>
             /\ f.denominator = SumOver([ i \in 1..Len(memory_blocks) |->
                                   IF i \in free THEN memory_blocks[i].size ELSE 0 ], 1)
             /\ \E i \in free :
                   /\ \A j \in free : memory_blocks[j].size <= memory_blocks[i].size
                   /\ f.numerator = f.denominator - memory_blocks[i].size
       /\ Cardinality(free) <= 1 => f.numerator = 0

\* free memory is split over two blocks around an allocated one
C17_Witness ==
    /\ Cardinality(FreeBlocks(memory_blocks)) >= 2
    /\ get_fragmentation(memory_blocks).numerator > 0

\* the processes in the ready structure
ReadyProcesses ==
    { IF algorithm \in {"SJF", "Priority"} THEN ready_queue[k][3]
      ELSE ready_queue[k] : k \in 1..Len(ready_queue) }

\* C18 (driver hand-off): in run_simulation every process handed to
\* schedule is one for which allocate returned True, and it holds its
\* memory while schedule runs; a process whose allocate returned False is
\* never handed over and never appears in the ready structure, the trace
\* or the completed list.
C18_DriverHandOff ==
    /\ \A k \in 1..Len(all_processes) :
          LET p == all_processes[k]
          IN /\ p <= Len(driver.results)
             /\ driver.results[p]
             /\ driver.phase = "schedule" => process[p].memory_allocated
    /\ \A p \in 1..Len(driver.results) :
          ~driver.results[p] =>
             /\ \A k \in 1..Len(all_processes) : all_processes[k] # p
             /\ \A k \in 1..Len(driver.allocated_processes) :
                   driver.allocated_processes[k] # p
             /\ p \notin ReadyProcesses
             /\ ~Dispatched(p)
             /\ \A k \in 1..Len(completed_processes) : completed_processes[k] # p

\* a run has finished in which one allocate failed and another succeeded
\* and the scheduler has run
C18_Witness ==
    /\ driver.phase = "completed"
    /\ \E p, q \in 1..Len(driver.results) :
          driver.results[p] /\ ~driver.results[q]
    /\ gantt_chart # <<>>

\* C19 (dispatch key for SJF and Priority): at every dispatch the ready
\* structure holds only processes that have arrived by current_time, and
\* the dispatched process has the least (remaining_time, arrival_time) pair
\* of them under SJF and the least (priority, arrival_time) pair under
\* Priority.
C19_DispatchKey ==
    [][ (algorithm \in {"SJF", "Priority"} /\
         Len(gantt_chart') = Len(gantt_chart) + 1) =>
          LET e        == gantt_chart'[Len(gantt_chart')]
              p        == ProcOfPid(e.pid)
              admitted == { all_processes[k] :
                              k \in process_index..(process_index' - 1) }
              ready    == ReadyProcesses \cup admitted
              key(r)   == IF algorithm = "SJF" THEN process[r].remaining_time
                          ELSE process[r].priority
          IN /\ p \in ready
             /\ e.start = current_time
             /\ \A r \in ready :
                   /\ process[r].arrival_time <= current_time
                   /\ \/ key(p) < key(r)
                      \/ /\ key(p) = key(r)
                         /\ process[p].arrival_time <= process[r].arrival_time ]_vars

\* a process was dispatched ahead of one that was ready, stands earlier in
\* the list and has a larger key
C19_Witness ==
    /\ algorithm \in {"SJF", "Priority"}
    /\ \E i, j \in 1..Len(gantt_chart) :
          LET p == ProcOfPid(gantt_chart[i].pid)
              q == ProcOfPid(gantt_chart[j].pid)
          IN /\ i < j
             /\ process[q].arrival_time <= gantt_chart[i].start
             /\ PrimaryKey(p) < PrimaryKey(q)
             /\ PosOf(q) < PosOf(p)

\* C20 (non-preemption): under FCFS, SJF and Priority no process has two
\* trace intervals, every interval is as long as its process's burst_time,
\* and when schedule returns every process has its interval; this holds
\* also when a process with a smaller key arrives during an interval.
C20_NonPreemptive ==
    algorithm \in {"FCFS", "SJF", "Priority"} =>
      /\ \A k, l \in 1..Len(gantt_chart) :
            gantt_chart[k].pid = gantt_chart[l].pid => k = l
      /\ \A k \in 1..Len(gantt_chart) :
            gantt_chart[k].end - gantt_chart[k].start =
               process[ProcOfPid(gantt_chart[k].pid)].burst_time
      /\ pc = "done" => \A p \in DOMAIN process : Dispatched(p)

\* a process with a smaller key arrived strictly inside the interval of
\* another, and the run has returned
C20_Witness ==
    /\ algorithm \in {"SJF", "Priority"}
    /\ pc = "done"
    /\ \E k \in 1..Len(gantt_chart) : \E q \in DOMAIN process :
          /\ gantt_chart[k].start < process[q].arrival_time
          /\ process[q].arrival_time < gantt_chart[k].end
          /\ PrimaryKey(q) < PrimaryKey(ProcOfPid(gantt_chart[k].pid))

\* ---- C21..C29
\* what schedule leaves behind for its input list
ScheduleComplete ==
    /\ ready_queue = <<>>
    /\ process_index > Len(all_processes)
    /\ Len(all_processes) = Cardinality(DOMAIN process)
    /\ Len(completed_processes) = Cardinality(DOMAIN process)
    /\ \A p \in DOMAIN process :
          /\ process[p].state = "TERMINATED"
          /\ process[p].remaining_time = 0
          /\ Cardinality({ k \in 1..Len(completed_processes) :
                             completed_processes[k] = p }) = 1
    /\ DOMAIN process = {} =>
          /\ completed_processes = <<>>
          /\ gantt_chart = <<>>
          /\ current_time = 0

\* C21 (termination and completeness): with every burst_time >= 1 and
\* time_quantum >= 1 under RR, schedule returns, and when it has returned
\* every input process is TERMINATED with remaining_time 0 and is exactly
\* once in the completed list, the ready structure is empty and no
\* unarrived process remains; for an empty list the completed list and the
\* trace are empty and current_time is 0.
C21_TerminatesComplete ==
    /\ [](pc = "done" => ScheduleComplete)
    /\ <>(pc = "done")

\* a run with an idle gap and a preempted process has returned
C21_Witness ==
    /\ pc = "done"
    /\ Len(completed_processes) = NumJobs
    /\ Len(gantt_chart) > Len(completed_processes)
    /\ \E k \in 2..Len(gantt_chart) :
          gantt_chart[k].start > gantt_chart[k - 1].end

\* the end of the interval before interval k, 0 before the first
EndBefore(k) == IF k = 1 THEN 0 ELSE gantt_chart[k - 1].end

\* the processes that still have to run when interval k starts, as far as
\* the trace shows
RunFrom(k) ==
    { p \in DOMAIN process :
        \E l \in k..Len(gantt_chart) : gantt_chart[l].pid = process[p].pid }

\* C22 (idle handling and work conservation): an interval starts where the
\* previous one ended if a process that had arrived by then still had to
\* run; otherwise it starts at the earliest arrival_time of the processes
\* that had not arrived; so no process that arrived before a gap is left
\* unfinished over the gap.
C22_WorkConserving ==
    \A k \in 1..Len(gantt_chart) :
       LET arrived == { p \in RunFrom(k) :
                          process[p].arrival_time <= EndBefore(k) }
       IN /\ gantt_chart[k].start >= EndBefore(k)
          /\ IF arrived # {}
             THEN gantt_chart[k].start = EndBefore(k)
             ELSE /\ gantt_chart[k].start > EndBefore(k)
                  /\ \E p \in RunFrom(k) :
                        process[p].arrival_time = gantt_chart[k].start
                  /\ \A p \in RunFrom(k) :
                        process[p].arrival_time >= gantt_chart[k].start
          /\ \A p \in DOMAIN process :
                (pc = "done" /\ process[p].arrival_time < gantt_chart[k].start
                   /\ gantt_chart[k].start > EndBefore(k))
                => p \notin RunFrom(k)

\* a run has returned whose trace has a gap between two intervals and two
\* intervals that follow each other at once
C22_Witness ==
    /\ pc = "done"
    /\ \E k, l \in 2..Len(gantt_chart) :
          /\ gantt_chart[k].start > gantt_chart[k - 1].end
          /\ gantt_chart[l].start = gantt_chart[l - 1].end

\* the total length of the intervals of pid among the first n of a trace
RECURSIVE SliceSum(_, _, _)
SliceSum(gantt, pid, n) ==
    IF n = 0 THEN 0
    ELSE SliceSum(gantt, pid, n - 1)
         + (IF gantt[n].pid = pid THEN gantt[n].end - gantt[n].start ELSE 0)

\* C23 (remaining-time discipline): with time_quantum >= 1 and
\* burst_time >= 1, remaining_time starts at burst_time, never increases and
\* is never negative; a slice takes exactly its length from the
\* remaining_time of its process and from no other, the length being
\* min(time_quantum, remaining_time) under RR; a process whose
\* remaining_time is 0 is not dispatched again; so the intervals of a
\* process and its remaining_time always add up to its burst_time.
C23_RemainingTime ==
    [][ /\ \A p \in DOMAIN process :
              /\ process[p].remaining_time >= 0
              /\ process'[p].remaining_time >= 0
              /\ process'[p].remaining_time <= process[p].remaining_time
              /\ SliceSum(gantt_chart, process[p].pid, Len(gantt_chart))
                    + process[p].remaining_time = process[p].burst_time
              /\ SliceSum(gantt_chart', process[p].pid, Len(gantt_chart'))
                    + process'[p].remaining_time = process[p].burst_time
        /\ IF Len(gantt_chart') = Len(gantt_chart) + 1
           THEN LET e == gantt_chart'[Len(gantt_chart')]
                    p == ProcOfPid(e.pid)
                    len == e.end - e.start
                IN /\ process[p].remaining_time > 0
                   /\ len = IF algorithm = "RR"
                            THEN MinOf(time_quantum, process[p].remaining_time)
                            ELSE process[p].remaining_time
                   /\ process'[p].remaining_time = process[p].remaining_time - len
                   /\ \A q \in DOMAIN process \ {p} :
                         process'[q].remaining_time = process[q].remaining_time
           ELSE /\ gantt_chart' = gantt_chart
                /\ \A q \in DOMAIN process :
                      process'[q].remaining_time = process[q].remaining_time ]_vars

\* an RR run has returned in which a process ran in two slices and a
\* slice was cut short by the remaining_time
C23_Witness ==
    /\ pc = "done" /\ algorithm = "RR"
    /\ \E k, l \in 1..Len(gantt_chart) :
          k < l /\ gantt_chart[k].pid = gantt_chart[l].pid
    /\ \E k \in 1..Len(gantt_chart) :
          gantt_chart[k].end - gantt_chart[k].start < time_quantum

\* C24 (write-once timing fields): start_time and response_time of a
\* process change only in the step of its first dispatch, to the
\* current_time before the slice and to start_time - arrival_time;
\* completion_time, turnaround_time and waiting_time change only in the
\* step in which its remaining_time reaches 0.
C24_WriteOnce ==
    [][ \A p \in DOMAIN process :
          LET runs  == /\ Len(gantt_chart') = Len(gantt_chart) + 1
                       /\ gantt_chart'[Len(gantt_chart')].pid = process[p].pid
              first == runs /\ ~Dispatched(p)
              ends  == runs /\ process[p].remaining_time > 0
                            /\ process'[p].remaining_time = 0
          IN /\ IF first
                THEN /\ process'[p].start_time = current_time
                     /\ process'[p].response_time =
                           current_time - process[p].arrival_time
                ELSE /\ process'[p].start_time = process[p].start_time
                     /\ process'[p].response_time = process[p].response_time
             /\ ~ends =>
                   /\ process'[p].completion_time = process[p].completion_time
                   /\ process'[p].turnaround_time = process[p].turnaround_time
                   /\ process'[p].waiting_time = process[p].waiting_time
             /\ ends =>
                   /\ process'[p].completion_time = current_time' ]_vars

\* an RR run has returned in which a process that did not arrive at 0 ran
\* in more than one slice, with another process in between
C24_Witness ==
    /\ pc = "done" /\ algorithm = "RR"
    /\ \E k, l \in 1..Len(gantt_chart) :
          /\ k + 1 < l
          /\ gantt_chart[k].pid = gantt_chart[l].pid
          /\ process[ProcOfPid(gantt_chart[k].pid)].arrival_time > 0
          /\ process[ProcOfPid(gantt_chart[k].pid)].start_time = gantt_chart[k].start

\* the trace is chronological and the clock is not behind it
TraceWellFormed ==
    /\ current_time >= 0
    /\ pc = "new" => current_time = 0
    /\ \A k \in 1..Len(gantt_chart) :
          /\ gantt_chart[k].start < gantt_chart[k].end
          /\ gantt_chart[k].start >= EndBefore(k)
    /\ gantt_chart # <<>> =>
          current_time >= gantt_chart[Len(gantt_chart)].end
    /\ (pc = "done" /\ gantt_chart # <<>>) =>
          current_time = gantt_chart[Len(gantt_chart)].end

\* C25 (trace well-formedness): with time_quantum >= 1 and burst_time >= 1,
\* current_time starts at 0 and never decreases, every interval has
\* start < end and starts no earlier than the previous one ended, and when
\* schedule has returned current_time is the end of the last interval.
C25_TraceWellFormed ==
    [][ /\ current_time' >= current_time
        /\ TraceWellFormed
        /\ TraceWellFormed' ]_vars

\* a run of several intervals has returned later than the bursts alone
\* take: the clock also moved over idle time
C25_Witness ==
    /\ pc = "done"
    /\ Len(gantt_chart) >= 3
    /\ current_time = gantt_chart[Len(gantt_chart)].end
    /\ current_time > SliceSum(gantt_chart, 1, Len(gantt_chart))
                      + SliceSum(gantt_chart, 2, Len(gantt_chart))
                      + SliceSum(gantt_chart, 3, Len(gantt_chart))
    /\ Cardinality(DOMAIN process) = 3

\* the positions of the intervals of process p in the trace
IntervalsOf(p) ==
    { k \in 1..Len(gantt_chart) : gantt_chart[k].pid = process[p].pid }

\* the time units from a up to b - 1 that no interval of p covers
UncoveredUnits(p, a, b) ==
    { t \in a..(b - 1) :
        \A k \in IntervalsOf(p) :
           ~(gantt_chart[k].start <= t /\ t < gantt_chart[k].end) }

\* C26 (metrics derivable from the trace): for every process in the
\* completed list, completion_time is the end of its last interval,
\* start_time the start of its first, turnaround_time is completion_time -
\* arrival_time, and waiting_time is the number of time units of
\* [arrival_time, completion_time) that its own intervals do not cover.
C26_MetricsFromTrace ==
    \A i \in 1..Len(completed_processes) :
       LET p   == completed_processes[i]
           own == IntervalsOf(p)
       IN /\ own # {}
          /\ \E last \in own :
                /\ \A k \in own : k <= last
                /\ process[p].completion_time = gantt_chart[last].end
          /\ \E first \in own :
                /\ \A k \in own : first <= k
                /\ process[p].start_time = gantt_chart[first].start
          /\ process[p].turnaround_time =
                process[p].completion_time - process[p].arrival_time
          /\ process[p].waiting_time =
                Cardinality(UncoveredUnits(p, process[p].arrival_time,
                                           process[p].completion_time))

\* a completed process that ran in several slices waited both before its
\* first slice and between its slices
C26_Witness ==
    \E i \in 1..Len(completed_processes) :
       LET p == completed_processes[i]
       IN /\ Cardinality(IntervalsOf(p)) >= 2
          /\ process[p].response_time > 0
          /\ process[p].waiting_time > process[p].response_time

\* C27 (ownership consistency), as claimed: in every state reached by
\* allocate and deallocate calls a block is allocated exactly if its
\* process_id is set, every allocated block is the block stored in
\* allocated_blocks under its process_id, and every block stored there is
\* an allocated block of memory_blocks with that process_id.
C27_OwnershipConsistent ==
    /\ \A i \in 1..Len(memory_blocks) :
          /\ memory_blocks[i].allocated <=> memory_blocks[i].process_id # None
          /\ memory_blocks[i].allocated =>
                /\ memory_blocks[i].process_id \in DOMAIN allocated_blocks
                /\ allocated_blocks[memory_blocks[i].process_id] =
                      memory_blocks[i].start
    /\ \A pid \in DOMAIN allocated_blocks :
          \E i \in 1..Len(memory_blocks) :
             /\ memory_blocks[i].start = allocated_blocks[pid]
             /\ memory_blocks[i].allocated
             /\ memory_blocks[i].process_id = pid

\* C28 (no dispatch before arrival): under every policy no interval of a
\* process starts before its arrival_time, and every completed process has
\* start_time >= arrival_time, response_time >= 0, waiting_time >= 0 and
\* response_time <= waiting_time.
C28_NoDispatchBeforeArrival ==
    /\ \A k \in 1..Len(gantt_chart) :
          gantt_chart[k].start >=
             process[ProcOfPid(gantt_chart[k].pid)].arrival_time
    /\ \A i \in 1..Len(completed_processes) :
          LET p == process[completed_processes[i]]
          IN /\ p.start_time >= p.arrival_time
             /\ p.response_time >= 0
             /\ p.waiting_time >= 0
             /\ p.response_time <= p.waiting_time

\* a run has returned in which one process was dispatched at the very
\* moment it arrived, after time 0, and another had to wait
C28_Witness ==
    /\ pc = "done"
    /\ \E i, j \in 1..Len(completed_processes) :
          LET p == process[completed_processes[i]]
              q == process[completed_processes[j]]
          IN /\ p.arrival_time > 0
             /\ p.start_time = p.arrival_time
             /\ q.response_time > 0

\* C29 (end-to-end memory reclamation): in run_simulation, with unique
\* pids, every deallocate of the deallocation phase returns True, and after
\* the phase no process holds memory, the ownership map is empty and
\* memory_blocks is the single free block [0, total_memory) again.
C29_MemoryReclaimed ==
    [][ /\ \A p \in DOMAIN process :
              Calling("deallocate", p) =>
                 /\ call'.ret
                 /\ driver.results[p]
        /\ driver'.phase = "completed" =>
              /\ allocated_blocks' = <<>>
              /\ memory_blocks' = <<MemoryBlock(0, total_memory)>>
              /\ \A p \in DOMAIN process : ~process'[p].memory_allocated
              /\ \A p \in DOMAIN process :
                    driver.results[p] =>
                       \E k \in 1..Len(completed_processes) :
                          completed_processes[k] = p ]_vars

\* a run has finished that held two blocks and a free rest and gave the
\* blocks back in the order opposite to that of their allocation
C29_Witness ==
    /\ driver.phase = "completed"
    /\ Len(completed_processes) >= 2
    /\ completed_processes[1] > completed_processes[2]
    /\ process[1].memory_required + process[2].memory_required < total_memory

====
